---- MODULE Spec2Model ----
(***************************************************************************)
(* A model of peer-dependency-checker: the setup flow (bin/setup.js), the  *)
(* package-manager detection of setup and of the scan/analyze scripts, the *)
(* check/precheck commands (bin/pdc.js) and the report scripts             *)
(* (src/upgrade-check.js, src/peer-check.js).                              *)
(*                                                                         *)
(* External programs (npm, yarn, pnpm, bun, the registry) are the          *)
(* environment: what a subprocess does is drawn from the outcomes the      *)
(* calling code distinguishes (throws / returns this output).              *)
(***************************************************************************)
EXTENDS Integers, Sequences, FiniteSets, TLC

VARIABLES
    \* ---- the project directory and the machine (shared by all flows)
    manifest,    \* package.json: [exists, hasScripts, scripts, devDep]
    config,      \* .pdcrc.json: the set holding its content, empty when absent
    lockfiles,   \* the lockfile names present in the project directory
    binaries,    \* the package managers whose `<pm> --version` succeeds
    pdcOnPath,   \* `pdc --version` succeeds (global install)
    installWorks,\* the package manager's add/install command succeeds
    \* ---- setup.js main()
    pc,          \* position of the setup run
    pm,          \* packageManager local of main()
    runs,        \* completed setup runs
    exitCode,    \* exit code of the last completed setup run
    pre,         \* history: the files as they were when the current run began
    argv,        \* the options setup.js was started with
    log,         \* the messages setup printed in the current run, in order
    pdcExit,     \* exit code of `pdc setup` around the last completed run
    \* ---- detectPackageManager / getPackageManager evaluated on their own
    probe,       \* [detect, get]: the results, "none" before the call
    \* ---- pdc.js: the check and precheck commands
    cliCmd,      \* "check" or "precheck"
    packages,    \* the package arguments, each a sequence of characters
    cliPos,      \* packages processed so far; -1 before the action starts
    output,      \* the lines printed, in order
    issued,      \* history: the registry queries made, with their outcomes
    cliExit,     \* exit code of the pdc process, -1 while it runs
    \* ---- upgrade-check.js (scan) and peer-check.js (analyze)
    deps,        \* currentDeps: the declared dependencies, name -> version
    rep,         \* the running script: its mode flags, position and locals
    printed,     \* the lines the script printed, in order
    calls,       \* history: the subprocess calls made, with their outcomes
    \* ---- the process of the running command
    hung,        \* the subprocess it waits on that never returns, or "none"
    \* ---- how scan or analyze was started, and the modes the script derived
    inv,         \* [script, via, flags, env, started, quick, brief]
    \* ---- bin/pdc-install
    inst,        \* the wrapper process: arguments, position, children, exit
    \* ---- the comprehensive upgrade-check script
    dry,         \* package.json, its backup, position, pending SIGINT, exit
    \* ---- two setup processes on one project
    race         \* the shared files and each process's position and reads

setupVars == <<manifest, config, lockfiles, binaries, pdcOnPath, installWorks,
               pc, pm, runs, exitCode, pre, argv, log, pdcExit>>
cliVars == <<cliCmd, packages, cliPos, output, issued, cliExit>>
repVars == <<deps, rep, printed, calls>>
vars == <<setupVars, probe, cliVars, repVars, hung, inv, inst, dry, race>>
\* What each flow leaves alone.
notSetup == <<probe, cliVars, repVars, inv, inst, dry, race>>
notProbe == <<setupVars, cliVars, repVars, hung, inv, inst, dry, race>>
notCli == <<setupVars, probe, repVars, inv, inst, dry, race>>
notRep == <<setupVars, probe, cliVars, inv, inst, dry, race>>
notMode == <<setupVars, probe, cliVars, repVars, hung, inst, dry, race>>
notLate == <<setupVars, probe, cliVars, repVars, hung, inv>>

\* ------------------------------------------------------------------ bounds
\* Arguments after the package manager's command on a pdc-install line.
MaxInstallArgs == 2
\* At most this many script keys are already present in package.json
\* before the first setup run.
MaxPreset == 1
\* Setup runs in a row.
MaxRuns == 2
\* Package arguments on one check or precheck command line.
MaxPackages == 2
\* Dependencies declared in the package.json that scan and analyze read.
MaxDeclared == 2

\* ------------------------------------------------------------ data
Managers == {"npm", "yarn", "pnpm", "bun"}
LockFiles == {"bun.lockb", "pnpm-lock.yaml", "yarn.lock", "package-lock.json"}

\* A script value is the sequence of its " && "-joined commands; the empty
\* string is the empty sequence.
EmptyString == <<>>
Truthy(v) == Len(v) > 0

commonScripts ==
    [k \in {"pdc:scan", "pdc:check", "pdc:analyze"} |->
        CASE k = "pdc:scan" -> <<"pdc scan">>
          [] k = "pdc:check" -> <<"pdc scan --quick || true">>
          [] k = "pdc:analyze" -> <<"pdc analyze --brief || true">>]

HookScripts ==
    [k \in {"preinstall", "postinstall"} |->
        IF k = "preinstall" THEN <<"pdc scan --quick || true">>
                            ELSE <<"pdc analyze --brief || true">>]

\* { ...commonScripts, preinstall: ..., postinstall: ... }
Spread(a, b) ==
    [k \in DOMAIN a \cup DOMAIN b |-> IF k \in DOMAIN b THEN b[k] ELSE a[k]]

getScriptsForPackageManager(p) ==
    CASE p = "yarn" -> Spread(commonScripts, HookScripts)
      [] p = "bun" -> Spread(commonScripts, HookScripts)
      [] p = "pnpm" -> Spread(commonScripts, HookScripts)
      [] OTHER -> Spread(commonScripts, HookScripts)

ToolKeys == {"preinstall", "postinstall", "pdc:scan", "pdc:check", "pdc:analyze"}
\* "start" stands for the project's own scripts.
AllKeys == ToolKeys \cup {"start"}
UserValues == {EmptyString, <<"echo original">>}

\* ------------------------------------------------- detectPackageManager
\* A detection that checks pnpm-lock.yaml before bun.lockb.
detectPnpmFirst(locks, bins) ==
    IF "pnpm-lock.yaml" \in locks THEN "pnpm"
    ELSE IF "bun.lockb" \in locks THEN "bun"
    ELSE IF "yarn.lock" \in locks THEN "yarn"
    ELSE IF "package-lock.json" \in locks THEN "npm"
    ELSE IF "bun" \in bins THEN "bun"
    ELSE IF "pnpm" \in bins THEN "pnpm"
    ELSE IF "yarn" \in bins THEN "yarn"
    ELSE "npm"

\* A detection whose first version check is not wrapped in try/catch: the
\* failing `bun --version` escapes as an exception.
detectUncaughtProbe(locks, bins) ==
    IF "bun.lockb" \in locks THEN "bun"
    ELSE IF "pnpm-lock.yaml" \in locks THEN "pnpm"
    ELSE IF "yarn.lock" \in locks THEN "yarn"
    ELSE IF "package-lock.json" \in locks THEN "npm"
    ELSE IF "bun" \in bins THEN "bun"
    ELSE "throw"

\* Lockfiles first (lines 95-98), then the version checks, each in its own
\* try/catch (lines 101-114), then the fallback (line 116).
detectPackageManager(locks, bins) ==
    IF "bun.lockb" \in locks THEN "bun"
    ELSE IF "pnpm-lock.yaml" \in locks THEN "pnpm"
    ELSE IF "yarn.lock" \in locks THEN "yarn"
    ELSE IF "package-lock.json" \in locks THEN "npm"
    ELSE IF "bun" \in bins THEN "bun"
    ELSE IF "pnpm" \in bins THEN "pnpm"
    ELSE IF "yarn" \in bins THEN "yarn"
    ELSE "npm"

\* getPackageManager of src/upgrade-check.js and src/peer-check.js
getPackageManager(locks) ==
    IF "pnpm-lock.yaml" \in locks THEN "pnpm"
    ELSE IF "yarn.lock" \in locks THEN "yarn"
    ELSE IF "bun.lockb" \in locks THEN "bun"
    ELSE "npm"

\* ------------------------------------------------------ setup.js: files
NoScripts == [k \in {} |-> EmptyString]

\* A merge that chains the tool's command in front of an existing hook.
MergeScriptsChain(scripts, toAdd) ==
    [k \in DOMAIN scripts \cup DOMAIN toAdd |->
        IF k \in DOMAIN toAdd
        THEN (IF k \in DOMAIN scripts /\ Truthy(scripts[k])
              THEN toAdd[k] \o scripts[k] ELSE toAdd[k])
        ELSE scripts[k]]

\* Merge scripts, avoiding overwrites: the forEach of setupPackageScripts.
MergeScripts(scripts, toAdd) ==
    [k \in DOMAIN scripts \cup DOMAIN toAdd |->
        IF k \in DOMAIN toAdd /\ ~(k \in DOMAIN scripts /\ Truthy(scripts[k]))
        THEN toAdd[k]
        ELSE scripts[k]]

\* A merge that writes back the package.json object main() parsed before the
\* install, so that what the install added is gone.
setupPackageScriptsStale(m, p) ==
    [m EXCEPT !.hasScripts = TRUE,
              !.scripts = MergeScripts(IF m.hasScripts THEN m.scripts ELSE NoScripts,
                                       getScriptsForPackageManager(p)),
              !.devDep = FALSE]

\* setupPackageScripts: read package.json, default the scripts map, merge,
\* write the whole file back.
setupPackageScripts(m, p) ==
    [m EXCEPT !.hasScripts = TRUE,
              !.scripts = MergeScripts(IF m.hasScripts THEN m.scripts ELSE NoScripts,
                                       getScriptsForPackageManager(p))]

DefaultConfig(p) ==
    [packageManager |-> p, riskTolerance |-> "medium", autoCheck |-> TRUE,
     checkOnInstall |-> TRUE, checkOnUpgrade |-> TRUE, excludePackages |-> {},
     includeDevDependencies |-> TRUE, outputFormat |-> "colored"]

\* A createConfig without the existsSync guard.
createConfigAlways(c, p) ==
    {DefaultConfig(p)}

\* createConfig: the file is the set of its contents, empty when absent.
createConfig(c, p) ==
    IF c # {} THEN c ELSE {DefaultConfig(p)}

\* The lockfile the package manager's own install leaves behind.
LockOf(p) ==
    CASE p = "bun" -> "bun.lockb"
      [] p = "pnpm" -> "pnpm-lock.yaml"
      [] p = "yarn" -> "yarn.lock"
      [] OTHER -> "package-lock.json"

\* ------------------------------------------------------ setup.js: main()
Snapshot == [manifest |-> manifest, config |-> config]

\* The options the help text of setup.js lists (lines 28-32).
SetupOptions == {"--dry-run"}

installCommands(p) ==
    CASE p = "yarn" -> "yarn add --dev peer-dependency-checker"
      [] p = "pnpm" -> "pnpm add --save-dev peer-dependency-checker"
      [] p = "bun" -> "bun add --dev peer-dependency-checker"
      [] OTHER -> "npm install --save-dev peer-dependency-checker"

\* The setup action of pdc.js: execSync of `node setup.js` throws when the
\* child exits non-zero, and the catch exits with code 1.
pdcSetup(childExit) ==
    IF childExit # 0 THEN 1 ELSE 0

Exit(code) ==
    /\ pc' = "idle"
    /\ pm' = "none"
    /\ runs' = runs + 1
    /\ exitCode' = code
    /\ pdcExit' = pdcSetup(code)

\* A main() without the manifest check of lines 52-55.
SetupStartUnchecked ==
    /\ pc = "idle"
    /\ runs < MaxRuns
    /\ pre' = Snapshot
    /\ pc' = "install"
    /\ pm' = detectPackageManager(lockfiles, binaries)
    /\ log' = <<"Found project:", "Detected package manager:">>
    /\ UNCHANGED <<runs, exitCode, pdcExit>>
    /\ UNCHANGED <<manifest, config, lockfiles, binaries, pdcOnPath, installWorks,
                   argv, hung>>
    /\ UNCHANGED notSetup

\* main(), lines 49-63: the manifest check and the detection. No option of
\* argv is read.
SetupStart ==
    /\ pc = "idle"
    /\ runs < MaxRuns
    /\ pre' = Snapshot
    /\ IF ~manifest.exists
       THEN /\ log' = <<"No package.json found. Please run this in a Node.js project root.">>
            /\ Exit(1)
       ELSE /\ pc' = "install"
            /\ pm' = detectPackageManager(lockfiles, binaries)
            /\ log' = <<"Found project:", "Detected package manager:">>
            /\ UNCHANGED <<runs, exitCode, pdcExit>>
    /\ UNCHANGED <<manifest, config, lockfiles, binaries, pdcOnPath, installWorks,
                   argv, hung>>
    /\ UNCHANGED notSetup

\* An install step whose failure is reported and passed over.
InstallStepContinues ==
    /\ pc = "install"
    /\ \/ /\ pdcOnPath
          /\ pc' = "scripts"
          /\ log' = log \o <<"Installing peer-dependency-checker...",
                             "Already installed globally">>
          /\ UNCHANGED <<manifest, lockfiles, pm, runs, exitCode, pdcExit, hung>>
       \/ /\ ~pdcOnPath
          /\ installWorks
          /\ manifest' = [manifest EXCEPT !.devDep = TRUE]
          /\ \E wrote \in BOOLEAN :
                lockfiles' = IF wrote THEN lockfiles \cup {LockOf(pm)} ELSE lockfiles
          /\ pc' = "scripts"
          /\ log' = log \o <<"Installing peer-dependency-checker...",
                             installCommands(pm), "Installed as devDependency">>
          /\ UNCHANGED <<pm, runs, exitCode, pdcExit, hung>>
       \/ /\ ~pdcOnPath
          /\ ~installWorks
          /\ pc' = "scripts"
          /\ log' = log \o <<"Installing peer-dependency-checker...",
                             installCommands(pm)>>
          /\ UNCHANGED <<manifest, lockfiles, pm, runs, exitCode, pdcExit, hung>>
       \/ /\ ~pdcOnPath
          /\ pc' = "blocked"
          /\ hung' = installCommands(pm)
          /\ log' = log \o <<"Installing peer-dependency-checker...",
                             installCommands(pm)>>
          /\ UNCHANGED <<manifest, lockfiles, pm, runs, exitCode, pdcExit>>
    /\ UNCHANGED <<config, binaries, pdcOnPath, installWorks, pre, argv>>
    /\ UNCHANGED notSetup

\* installPeerDependencyChecker: nothing to do when pdc is global; otherwise
\* the package manager adds the devDependency (and may leave its lockfile),
\* or fails, and the throw ends main() in its catch with exit code 1. The
\* install command runs without a timeout: when it never returns, setup
\* waits on it.
InstallStep ==
    /\ pc = "install"
    /\ \/ /\ pdcOnPath
          /\ pc' = "scripts"
          /\ log' = log \o <<"Installing peer-dependency-checker...",
                             "Already installed globally">>
          /\ UNCHANGED <<manifest, lockfiles, pm, runs, exitCode, pdcExit, hung>>
       \/ /\ ~pdcOnPath
          /\ installWorks
          /\ manifest' = [manifest EXCEPT !.devDep = TRUE]
          /\ \E wrote \in BOOLEAN :
                lockfiles' = IF wrote THEN lockfiles \cup {LockOf(pm)} ELSE lockfiles
          /\ pc' = "scripts"
          /\ log' = log \o <<"Installing peer-dependency-checker...",
                             installCommands(pm), "Installed as devDependency">>
          /\ UNCHANGED <<pm, runs, exitCode, pdcExit, hung>>
       \/ /\ ~pdcOnPath
          /\ ~installWorks
          /\ log' = log \o <<"Installing peer-dependency-checker...",
                             installCommands(pm), "Setup failed:">>
          /\ Exit(1)
          /\ UNCHANGED <<manifest, lockfiles, hung>>
       \/ /\ ~pdcOnPath
          /\ pc' = "blocked"
          /\ hung' = installCommands(pm)
          /\ log' = log \o <<"Installing peer-dependency-checker...",
                             installCommands(pm)>>
          /\ UNCHANGED <<manifest, lockfiles, pm, runs, exitCode, pdcExit>>
    /\ UNCHANGED <<config, binaries, pdcOnPath, installWorks, pre, argv>>
    /\ UNCHANGED notSetup

ScriptsStep ==
    /\ pc = "scripts"
    /\ manifest' = setupPackageScripts(manifest, pm)
    /\ pc' = "config"
    /\ log' = log \o <<"Setting up package.json scripts...", "Package.json updated">>
    /\ UNCHANGED <<config, lockfiles, binaries, pdcOnPath, installWorks,
                   pm, runs, exitCode, pre, argv, pdcExit, hung>>
    /\ UNCHANGED notSetup

ConfigStep ==
    /\ pc = "config"
    /\ config' = createConfig(config, pm)
    /\ pc' = "test"
    /\ log' = log \o <<"Creating configuration file...",
                       IF config # {} THEN ".pdcrc.json already exists, skipping"
                                      ELSE "Created .pdcrc.json">>
    /\ UNCHANGED <<manifest, lockfiles, binaries, pdcOnPath, installWorks,
                   pm, runs, exitCode, pre, argv, pdcExit, hung>>
    /\ UNCHANGED notSetup

\* A smoke test whose failure puts the files back as they were before the run.
TestStepRollback ==
    /\ pc = "test"
    /\ \/ /\ pdcOnPath
          /\ log' = log \o <<"Testing setup...", "CLI accessible", "Setup complete!">>
          /\ Exit(0)
          /\ UNCHANGED <<manifest, config>>
       \/ /\ ~pdcOnPath
          /\ \E npx \in BOOLEAN :
               IF npx
               THEN /\ log' = log \o <<"Testing setup...", "CLI accessible via npx",
                                       "Setup complete!">>
                    /\ Exit(0)
                    /\ UNCHANGED <<manifest, config>>
               ELSE /\ log' = log \o <<"Testing setup...", "CLI not accessible",
                                       "Setup failed:">>
                    /\ Exit(1)
                    /\ manifest' = pre.manifest
                    /\ config' = pre.config
    /\ UNCHANGED <<lockfiles, binaries, pdcOnPath, installWorks, pre,
                   argv, hung>>
    /\ UNCHANGED notSetup

\* testSetup: `pdc --version`, else `npx pdc --version`, else throw; then the
\* closing lines of main(), or its catch.
TestStep ==
    /\ pc = "test"
    /\ \/ /\ pdcOnPath
          /\ log' = log \o <<"Testing setup...", "CLI accessible", "Setup complete!">>
          /\ Exit(0)
       \/ /\ ~pdcOnPath
          /\ \E npx \in BOOLEAN :
               IF npx
               THEN /\ log' = log \o <<"Testing setup...", "CLI accessible via npx",
                                       "Setup complete!">>
                    /\ Exit(0)
               ELSE /\ log' = log \o <<"Testing setup...", "CLI not accessible",
                                       "Setup failed:">>
                    /\ Exit(1)
    /\ UNCHANGED <<manifest, config, lockfiles, binaries, pdcOnPath, installWorks, pre,
                   argv, hung>>
    /\ UNCHANGED notSetup

\* ------------------------------------------------- the setup specification
PresetScripts ==
    UNION {[S -> UserValues] : S \in {T \in SUBSET AllKeys : Cardinality(T) <= MaxPreset}}

\* A .pdcrc.json the user already has, with a key this tool does not know.
CustomConfig == [packageManager |-> "npm", riskTolerance |-> "medium", newFeature |-> TRUE]

NoManifest == [exists |-> FALSE, hasScripts |-> FALSE, scripts |-> NoScripts, devDep |-> FALSE]

InitManifests ==
    {NoManifest}
    \cup {[exists |-> TRUE, hasScripts |-> FALSE, scripts |-> NoScripts, devDep |-> FALSE]}
    \cup {[exists |-> TRUE, hasScripts |-> TRUE, scripts |-> s, devDep |-> FALSE] :
             s \in PresetScripts}

IdleProbe == [detect |-> "none", get |-> "none"]

IdleRace == [file |-> NoManifest, orig |-> NoManifest, cfg |-> {}, locks |-> {},
             global |-> FALSE,
             run |-> [r \in {1, 2} |->
                        [pc |-> "none", pm |-> "none", read |-> NoManifest,
                         seen |-> FALSE, exit |-> -1]]]

IdleDry == [pc |-> "none", pkg |-> {}, backup |-> {}, orig |-> {},
            hasBackup |-> FALSE, upgraded |-> FALSE, thrown |-> FALSE,
            sigint |-> FALSE, failed |-> {}, exit |-> -1]

IdleInst == [args |-> <<>>, pc |-> "none", packages |-> <<>>, answer |-> "",
             closed |-> {}, running |-> {}, events |-> <<>>, log |-> <<>>,
             exit |-> -1]

IdleInv == [script |-> "none", via |-> "none", flags |-> {}, env |-> [QUICK_MODE |-> {}, BRIEF_MODE |-> {}],
            started |-> FALSE, quick |-> FALSE, brief |-> FALSE]

IdleCli ==
    /\ cliCmd = "none"
    /\ packages = <<>>
    /\ cliPos = -1
    /\ output = <<>>
    /\ issued = <<>>
    /\ cliExit = -1

NoDeps == [n \in {} |-> ""]
IdleRep ==
    /\ deps = NoDeps
    /\ rep = [script |-> "none", quick |-> FALSE, brief |-> FALSE, pc |-> "start",
              pm |-> "none", outdated |-> "", issues |-> "", watch |-> 0,
              conflicts |-> <<>>, exit |-> -1]
    /\ printed = <<>>
    /\ calls = <<>>

\* The project and the machine setup is run on. What is installed on the
\* machine (pdcOnPath, installWorks, binaries) is part of the starting state
\* and stays as it is from one run to the next.
InitSetup ==
    /\ manifest \in InitManifests
    /\ config \in {{}, {CustomConfig}}
    /\ lockfiles \in SUBSET LockFiles
    /\ binaries \in SUBSET (Managers \ {"npm"})
    /\ pdcOnPath \in BOOLEAN
    /\ installWorks \in BOOLEAN
    /\ pc = "idle"
    /\ pm = "none"
    /\ runs = 0
    /\ exitCode = -1
    /\ pre = Snapshot
    /\ argv \in SUBSET SetupOptions
    /\ log = <<>>
    /\ pdcExit = -1
    /\ probe = IdleProbe
    /\ IdleCli
    /\ IdleRep
    /\ hung = "none"
    /\ inv = IdleInv
    /\ inst = IdleInst
    /\ dry = IdleDry
    /\ race = IdleRace

NextSetup ==
    \/ SetupStart
    \/ InstallStep
    \/ ScriptsStep
    \/ ConfigStep
    \/ TestStep

SpecSetup == InitSetup /\ [][NextSetup]_vars

\* -------------------------------------- the two detections on a directory
IdleSetup ==
    /\ manifest = NoManifest
    /\ config = {}
    /\ pdcOnPath = FALSE
    /\ installWorks = FALSE
    /\ pc = "idle"
    /\ pm = "none"
    /\ runs = 0
    /\ exitCode = -1
    /\ pre = Snapshot
    /\ argv = {}
    /\ log = <<>>
    /\ pdcExit = -1

InitProbe ==
    /\ IdleSetup
    /\ lockfiles \in SUBSET LockFiles
    /\ binaries \in SUBSET Managers
    /\ probe = IdleProbe
    /\ IdleCli
    /\ IdleRep
    /\ hung = "none"
    /\ inv = IdleInv
    /\ inst = IdleInst
    /\ dry = IdleDry
    /\ race = IdleRace

\* setup.js calls detectPackageManager(cwd).
ProbeDetect ==
    /\ probe.detect = "none"
    /\ probe' = [probe EXCEPT !.detect = detectPackageManager(lockfiles, binaries)]
    /\ UNCHANGED notProbe

\* upgrade-check.js and peer-check.js call getPackageManager() in the cwd.
ProbeGet ==
    /\ probe.get = "none"
    /\ probe' = [probe EXCEPT !.get = getPackageManager(lockfiles)]
    /\ UNCHANGED notProbe

NextProbe ==
    \/ ProbeDetect
    \/ ProbeGet

SpecProbe == InitProbe /\ [][NextProbe]_vars

\* ------------------------------------------------ subprocess output
\* The standard outputs the model draws from.
PeersText == "{ react: '^19.0.0' }\n"
OutdatedTable == "Package  Current  Wanted  Latest\nreact  18.3.1  18.3.1  19.0.0\n"
Warnings == "npm WARN react-dom@18.3.1 requires a peer of react@^18.3.1\n"
PeersJson == "{\"react-dom\":\"^19.0.0\"}\n"
EmptyJson == "{}\n"
Notice == "npm notice new version of npm available\n"
AuditClean == "{\"vulnerabilities\":{}}\n"
AuditFound == "{\"vulnerabilities\":{\"lodash\":{}}}\n"
MajorList == "react  18.3.1 -> 19.0.0\n"

\* String.prototype.trim on the outputs above: the trailing newline goes.
Trim(o) ==
    CASE o = OutdatedTable -> "Package  Current  Wanted  Latest\nreact  18.3.1  18.3.1  19.0.0"
      [] o = Warnings -> "npm WARN react-dom@18.3.1 requires a peer of react@^18.3.1"
      [] o = PeersJson -> "{\"react-dom\":\"^19.0.0\"}"
      [] o = EmptyJson -> "{}"
      [] o = Notice -> "npm notice new version of npm available"
      [] o = AuditClean -> "{\"vulnerabilities\":{}}"
      [] o = AuditFound -> "{\"vulnerabilities\":{\"lodash\":{}}}"
      [] o = MajorList -> "react  18.3.1 -> 19.0.0"
      [] o = PeersText -> "{ react: '^19.0.0' }"
      [] o = "\n" -> ""
      [] OTHER -> o

\* ------------------------------------------- pdc.js: check and precheck
\* Strings that the code takes apart are sequences of characters.
At == "@"
Latest == <<"l", "a", "t", "e", "s", "t">>
NextTag == <<"n", "e", "x", "t">>

\* pkg.includes('@')
Includes(s, c) == \E i \in 1..Len(s) : s[i] = c

IndexOf(s, c) == CHOOSE i \in 1..Len(s) : s[i] = c /\ \A j \in 1..(i - 1) : s[j] # c

\* String.prototype.split with a one-character separator.
RECURSIVE Split(_, _)
Split(s, c) ==
    IF ~Includes(s, c)
    THEN <<s>>
    ELSE <<SubSeq(s, 1, IndexOf(s, c) - 1)>>
            \o Split(SubSeq(s, IndexOf(s, c) + 1, Len(s)), c)

\* A parse whose default dist-tag is "next".
ParseArgNext(pkg) ==
    IF Includes(pkg, At)
    THEN [name |-> Split(pkg, At)[1], version |-> Split(pkg, At)[2]]
    ELSE [name |-> pkg, version |-> NextTag]

\* const [name, version] = pkg.includes('@') ? pkg.split('@') : [pkg, 'latest']
ParseArg(pkg) ==
    IF Includes(pkg, At)
    THEN [name |-> Split(pkg, At)[1], version |-> Split(pkg, At)[2]]
    ELSE [name |-> pkg, version |-> Latest]

\* `${name}@${version || 'latest'}`: the package spec handed to `npm info`.
QuerySpec(pkg) ==
    ParseArg(pkg).name \o <<At>>
        \o (IF ParseArg(pkg).version = <<>> THEN Latest ELSE ParseArg(pkg).version)

\* What execSync(`npm info ...`) does: it throws (non-zero exit, npm missing),
\* or returns the command's standard output.
Outputs == {"", "\n", PeersText}
Outcomes ==
    {[ok |-> FALSE, out |-> ""]} \cup {[ok |-> TRUE, out |-> o] : o \in Outputs}

Line(text, arg, detail) == [text |-> text, arg |-> arg, detail |-> detail]

\* A check whose catch block falls through to the empty-result message.
RenderCheckSwallow(pkg, r) ==
    IF r.ok /\ Trim(r.out) # ""
    THEN Line("Peer deps: ", <<>>, Trim(r.out))
    ELSE Line("No peer dependencies required", <<>>, "")

\* check, lines 120-134: the line printed for one package.
RenderCheck(pkg, r) ==
    IF r.ok
    THEN IF Trim(r.out) # ""
         THEN Line("Peer deps: ", <<>>, Trim(r.out))
         ELSE Line("No peer dependencies required", <<>>, "")
    ELSE Line("Error: Could not fetch info for ", pkg, "")

\* precheck, lines 75-89.
RenderPrecheck(pkg, r) ==
    IF r.ok
    THEN IF Trim(r.out) # ""
         THEN Line("Peer deps: ", <<>>, Trim(r.out))
         ELSE Line("No peer dependencies required", <<>>, "")
    ELSE Line("Could not fetch info for ", pkg, "")

\* A check that treats the missing arguments as a fatal error.
CheckUsageFatal ==
    /\ cliCmd = "check"
    /\ cliPos = -1
    /\ Len(packages) = 0
    /\ output' = output \o <<Line("Please specify packages to check. Example:", <<>>, ""),
                             Line("  pdc check react@19 react-dom@19", <<>>, "")>>
    /\ cliPos' = 0
    /\ cliExit' = 1
    /\ UNCHANGED <<cliCmd, packages, issued>>
    /\ UNCHANGED <<notCli, hung>>

\* check with no package: the usage lines, and return.
CheckUsage ==
    /\ cliCmd = "check"
    /\ cliPos = -1
    /\ Len(packages) = 0
    /\ output' = output \o <<Line("Please specify packages to check. Example:", <<>>, ""),
                             Line("  pdc check react@19 react-dom@19", <<>>, "")>>
    /\ cliPos' = 0
    /\ cliExit' = 0
    /\ UNCHANGED <<cliCmd, packages, issued>>
    /\ UNCHANGED <<notCli, hung>>

CheckBegin ==
    /\ cliCmd = "check"
    /\ cliPos = -1
    /\ Len(packages) > 0
    /\ output' = Append(output, Line("Testing n package(s)...", <<>>, ToString(Len(packages))))
    /\ cliPos' = 0
    /\ UNCHANGED <<cliCmd, packages, issued, cliExit>>
    /\ UNCHANGED <<notCli, hung>>

\* The action returns after the last package and the process ends with
\* exit code 0; no action of check or precheck calls process.exit.
AfterPackage(done) == IF done = Len(packages) THEN 0 ELSE -1

\* The command line of the registry query.
NpmInfo == "npm info <name>@<version> peerDependencies"

\* An iteration that asks the registry a second time when the first query
\* failed.
CheckPackageRetry ==
    /\ cliCmd = "check"
    /\ cliPos >= 0
    /\ cliPos < Len(packages)
    /\ hung = "none"
    /\ \/ \E r \in Outcomes, r2 \in Outcomes :
            /\ issued' = issued
                  \o <<[spec |-> QuerySpec(packages[cliPos + 1]),
                        ok |-> r.ok, out |-> r.out]>>
                  \o (IF r.ok THEN <<>>
                      ELSE <<[spec |-> QuerySpec(packages[cliPos + 1]),
                              ok |-> r2.ok, out |-> r2.out]>>)
            /\ output' = output \o <<Line("OK ", packages[cliPos + 1], ""),
                                     RenderCheck(packages[cliPos + 1],
                                                 IF r.ok THEN r ELSE r2)>>
            /\ cliPos' = cliPos + 1
            /\ cliExit' = AfterPackage(cliPos + 1)
            /\ UNCHANGED hung
       \/ /\ hung' = NpmInfo
          /\ output' = Append(output, Line("OK ", packages[cliPos + 1], ""))
          /\ UNCHANGED <<cliPos, issued, cliExit>>
    /\ UNCHANGED <<cliCmd, packages>>
    /\ UNCHANGED notCli

\* One iteration of packages.forEach in check. execSync is called without a
\* timeout: when npm never returns, the command waits on it.
CheckPackage ==
    /\ cliCmd = "check"
    /\ cliPos >= 0
    /\ cliPos < Len(packages)
    /\ hung = "none"
    /\ \/ \E r \in Outcomes :
            /\ issued' = Append(issued, [spec |-> QuerySpec(packages[cliPos + 1]),
                                         ok |-> r.ok, out |-> r.out])
            /\ output' = output \o <<Line("OK ", packages[cliPos + 1], ""),
                                     RenderCheck(packages[cliPos + 1], r)>>
            /\ cliPos' = cliPos + 1
            /\ cliExit' = AfterPackage(cliPos + 1)
            /\ UNCHANGED hung
       \/ /\ hung' = NpmInfo
          /\ output' = Append(output, Line("OK ", packages[cliPos + 1], ""))
          /\ UNCHANGED <<cliPos, issued, cliExit>>
    /\ UNCHANGED <<cliCmd, packages>>
    /\ UNCHANGED notCli

PrecheckBegin ==
    /\ cliCmd = "precheck"
    /\ cliPos = -1
    /\ Len(packages) > 0
    /\ output' = output \o <<Line("Running pre-installation checks...", <<>>, ""),
                             Line("Checking n package(s) for conflicts...", <<>>, ToString(Len(packages)))>>
    /\ cliPos' = 0
    /\ UNCHANGED <<cliCmd, packages, issued, cliExit>>
    /\ UNCHANGED <<notCli, hung>>

\* One iteration of packages.forEach in precheck; no timeout here either.
PrecheckPackage ==
    /\ cliCmd = "precheck"
    /\ cliPos >= 0
    /\ cliPos < Len(packages)
    /\ hung = "none"
    /\ \/ \E r \in Outcomes :
            /\ issued' = Append(issued, [spec |-> QuerySpec(packages[cliPos + 1]),
                                         ok |-> r.ok, out |-> r.out])
            /\ output' = output \o <<Line("Checking ", packages[cliPos + 1], ""),
                                     RenderPrecheck(packages[cliPos + 1], r)>>
            /\ cliPos' = cliPos + 1
            /\ cliExit' = AfterPackage(cliPos + 1)
            /\ UNCHANGED hung
       \/ /\ hung' = NpmInfo
          /\ output' = Append(output, Line("Checking ", packages[cliPos + 1], ""))
          /\ UNCHANGED <<cliPos, issued, cliExit>>
    /\ UNCHANGED <<cliCmd, packages>>
    /\ UNCHANGED notCli

\* precheck with no package: peer-check.js in brief mode as a child process;
\* a failing child is reported.
PrecheckHealth ==
    /\ cliCmd = "precheck"
    /\ cliPos = -1
    /\ Len(packages) = 0
    /\ \E childOk \in BOOLEAN :
         output' = output \o <<Line("Running pre-installation checks...", <<>>, "")>>
                     \o (IF childOk THEN <<>>
                         ELSE <<Line("Error running precheck:", <<>>, "")>>)
    /\ cliPos' = 0
    /\ cliExit' = 0
    /\ UNCHANGED <<cliCmd, packages, issued>>
    /\ UNCHANGED <<notCli, hung>>

\* The package arguments: a bare or a scoped name, alone, with a trailing
\* '@', or with a version.
ArgNames == {<<"r">>, <<At, "t", "/", "r">>}
ArgSuffixes == {<<>>, <<At>>, <<At, "1", "9">>}
Args == {n \o v : n \in ArgNames, v \in ArgSuffixes}

ArgLists == UNION {[1..n -> Args] : n \in 0..MaxPackages}

InitCli ==
    /\ IdleSetup
    /\ lockfiles = {}
    /\ binaries = {}
    /\ probe = IdleProbe
    /\ cliCmd \in {"check", "precheck"}
    /\ packages \in ArgLists
    /\ cliPos = -1
    /\ output = <<>>
    /\ issued = <<>>
    /\ cliExit = -1
    /\ IdleRep
    /\ hung = "none"
    /\ inv = IdleInv
    /\ inst = IdleInst
    /\ dry = IdleDry
    /\ race = IdleRace

NextCli ==
    \/ CheckUsage
    \/ CheckBegin
    \/ CheckPackage
    \/ PrecheckBegin
    \/ PrecheckPackage
    \/ PrecheckHealth

SpecCli == InitCli /\ [][NextCli]_vars

\* ------------------------- upgrade-check.js / peer-check.js: subprocesses
\* null is the empty set, a string s is {s}.
Null == {}
Falsy(v) == v = Null \/ v = {""}
\* result || fallback
OrElse(v, fallback) == IF Falsy(v) THEN fallback ELSE CHOOSE x \in v : TRUE

\* What a subprocess call does. ok: execSync returned (exit code 0 within
\* the 10 s timeout), and then out is its standard output. truth is what
\* happened behind it: the query ran and found nothing ("clean"), ran and
\* found something ("findings"), or did not run to completion ("failed").
Outcome(ok, out, truth) == [ok |-> ok, out |-> out, truth |-> truth]

\* `<pm> outdated`: npm, yarn and pnpm exit non-zero when they list outdated
\* packages, bun exits 0.
OutdatedOutcomes ==
    {Outcome(TRUE, "", "clean"), Outcome(TRUE, OutdatedTable, "findings"),
     Outcome(FALSE, "", "findings"), Outcome(FALSE, "", "failed")}

\* `<pm> ls 2>&1 | grep ... | head`: the exit code is that of head, so a
\* failing listing still returns; only the timeout throws.
ListingOutcomes ==
    {Outcome(TRUE, "", "clean"), Outcome(TRUE, Warnings, "findings"),
     Outcome(TRUE, "", "failed"), Outcome(FALSE, "", "failed")}

\* `npm info <pkg>@<version> peerDependencies --json`: nothing is printed for
\* a package without the field.
InfoOutcomes ==
    {Outcome(TRUE, "", "clean"), Outcome(TRUE, EmptyJson, "clean"),
     Outcome(TRUE, PeersJson, "findings"), Outcome(TRUE, Notice, "failed"),
     Outcome(FALSE, "", "failed")}

AuditOutcomes ==
    {Outcome(TRUE, AuditClean, "clean"), Outcome(FALSE, "", "findings"),
     Outcome(TRUE, AuditFound, "findings"), Outcome(TRUE, Notice, "failed"),
     Outcome(FALSE, "", "failed")}

MajorOutcomes ==
    {Outcome(TRUE, "", "clean"), Outcome(TRUE, MajorList, "findings"),
     Outcome(FALSE, "", "failed")}

\* runCommandSilent(command) with the default fallback null.
runCommandSilent(r) ==
    IF r.ok THEN {Trim(r.out)} ELSE Null

\* JSON.parse: the value, or a SyntaxError.
EmptyMap == [n \in {} |-> ""]
JsonParses(t) == t \in {"{}", "{\"react-dom\":\"^19.0.0\"}"}
JsonValue(t) ==
    IF t = "{}" THEN EmptyMap ELSE [n \in {"react-dom"} |-> "^19.0.0"]

\* getPeerDependencies: null, or the parsed mapping as {mapping}.
getPeerDependencies(r) ==
    IF Falsy(runCommandSilent(r))
    THEN Null
    ELSE IF JsonParses(OrElse(runCommandSilent(r), ""))
         THEN {JsonValue(OrElse(runCommandSilent(r), ""))}
         ELSE Null

NoIssues == "No peer dependency issues detected"
\* getCurrentPeerIssues of peer-check.js
getCurrentPeerIssues(r) == OrElse(runCommandSilent(r), NoIssues)

ListingCommand(p) ==
    CASE p = "pnpm" -> "pnpm ls 2>&1 | grep -E \"WARN|ERROR|x\" | head -10"
      [] p = "yarn" -> "yarn list --depth=0 2>&1 | grep -E \"warning|error\" | head -10"
      [] OTHER -> "npm ls 2>&1 | grep -E \"WARN|ERROR|missing\" | head -10"

criticalPackages ==
    <<"react", "react-dom", "@types/react", "@types/react-dom",
      "next", "typescript", "@types/node", "eslint">>

\* currentDeps[pkg].replace(/[\^~]/, '')
StripRange(v) ==
    CASE v = "^18.3.1" -> "18.3.1"
      [] v = "~18.3.1" -> "18.3.1"
      [] OTHER -> v

Call(fn, cmd, r, result) ==
    [fn |-> fn, cmd |-> cmd, ok |-> r.ok, out |-> r.out, truth |-> r.truth,
     result |-> result]

\* ------------------------------------------------- peer-check.js: main()
\* BRIEF_MODE: one listing, one verdict, return.
AnalyzeBrief ==
    /\ rep.script = "analyze"
    /\ rep.pc = "start"
    /\ rep.brief
    /\ \E r \in ListingOutcomes :
         /\ calls' = Append(calls, Call("getCurrentPeerIssues",
                                        ListingCommand(getPackageManager(lockfiles)),
                                        r, getCurrentPeerIssues(r)))
         /\ printed' = printed \o <<"Checking peer dependencies...">>
               \o (IF getCurrentPeerIssues(r) = NoIssues
                   THEN <<"No peer dependency conflicts found">>
                   ELSE <<"Peer dependency issues detected",
                          "   Run \"pdc analyze\" for details">>)
         /\ rep' = [rep EXCEPT !.pm = getPackageManager(lockfiles),
                               !.issues = getCurrentPeerIssues(r),
                               !.pc = "done", !.exit = 0]
    /\ UNCHANGED deps
    /\ UNCHANGED <<notRep, hung>>

\* Section 1, CURRENT PEER DEPENDENCY STATUS.
AnalyzeStatus ==
    /\ rep.script = "analyze"
    /\ rep.pc = "start"
    /\ ~rep.brief
    /\ \E r \in ListingOutcomes :
         /\ calls' = Append(calls, Call("getCurrentPeerIssues",
                                        ListingCommand(getPackageManager(lockfiles)),
                                        r, getCurrentPeerIssues(r)))
         /\ printed' = printed \o <<"Analyzing peer dependencies...",
                                    "CURRENT PEER DEPENDENCY STATUS",
                                    getCurrentPeerIssues(r),
                                    "POTENTIAL UPGRADE CONFLICTS">>
         /\ rep' = [rep EXCEPT !.pm = getPackageManager(lockfiles),
                               !.issues = getCurrentPeerIssues(r),
                               !.pc = "conflicts"]
    /\ UNCHANGED deps
    /\ UNCHANGED <<notRep, hung>>

\* analyzePotentialConflicts reads package.json; without the file the read
\* throws and main().catch exits with code 1.
AnalyzeReadDeps ==
    /\ rep.script = "analyze"
    /\ rep.pc = "conflicts"
    /\ IF manifest.exists
       THEN /\ rep' = [rep EXCEPT !.pc = "watch", !.watch = 1]
            /\ UNCHANGED printed
       ELSE /\ rep' = [rep EXCEPT !.pc = "done", !.exit = 1]
            /\ printed' = Append(printed, "Analysis failed:")
    /\ UNCHANGED <<deps, calls>>
    /\ UNCHANGED <<notRep, hung>>

AfterWatch(w) == IF w = Len(criticalPackages) THEN "report" ELSE "watch"

\* One iteration of the loop over criticalPackages.
AnalyzeWatch ==
    /\ rep.script = "analyze"
    /\ rep.pc = "watch"
    /\ \/ /\ criticalPackages[rep.watch] \in DOMAIN deps
          /\ deps[criticalPackages[rep.watch]] # ""
          /\ \E r \in InfoOutcomes :
               /\ calls' = Append(calls, Call("getPeerDependencies",
                                              criticalPackages[rep.watch],
                                              r, getPeerDependencies(r)))
               /\ rep' = [rep EXCEPT
                      !.conflicts =
                          IF getPeerDependencies(r) # Null
                             /\ \E m \in getPeerDependencies(r) : DOMAIN m # {}
                          THEN Append(@, [package |-> criticalPackages[rep.watch],
                                          current |-> StripRange(deps[criticalPackages[rep.watch]]),
                                          peerDeps |-> CHOOSE m \in getPeerDependencies(r) : TRUE])
                          ELSE @,
                      !.watch = @ + 1,
                      !.pc = AfterWatch(rep.watch)]
       \/ /\ ~(/\ criticalPackages[rep.watch] \in DOMAIN deps
               /\ deps[criticalPackages[rep.watch]] # "")
          /\ rep' = [rep EXCEPT !.watch = @ + 1, !.pc = AfterWatch(rep.watch)]
          /\ UNCHANGED calls
    /\ UNCHANGED <<deps, printed>>
    /\ UNCHANGED <<notRep, hung>>

ConflictLines(cs) == [i \in 1..Len(cs) |-> cs[i].package]

\* Sections 2 (the conflicts found) and 3 (RECOMMENDATIONS).
AnalyzeReport ==
    /\ rep.script = "analyze"
    /\ rep.pc = "report"
    /\ printed' = printed
          \o (IF Len(rep.conflicts) = 0
              THEN <<"No major peer dependency conflicts detected">>
              ELSE ConflictLines(rep.conflicts))
          \o <<"RECOMMENDATIONS">>
          \o (IF rep.issues = NoIssues
              THEN <<"Your peer dependencies look good!">>
              ELSE <<"Action needed:">>)
    /\ rep' = [rep EXCEPT !.pc = "done", !.exit = 0]
    /\ UNCHANGED <<deps, calls>>
    /\ UNCHANGED <<notRep, hung>>

\* ------------------------------------------------ upgrade-check.js
NoOutdated == "No outdated packages found or lockfile missing"
NcuMissing == "npm-check-updates not available. Install with: npm install -g npm-check-updates"

getOutdatedPackages(r) == OrElse(runCommandSilent(r), NoOutdated)

OutdatedCommand(p) ==
    CASE p = "pnpm" -> "pnpm outdated --format table"
      [] p = "yarn" -> "yarn outdated"
      [] p = "bun" -> "bun outdated"
      [] OTHER -> "npm outdated"

\* outdated.includes('No outdated'), outdated.includes('not available'), on
\* the strings getOutdatedPackages can return.
IncludesNoOutdated(t) == t = NoOutdated
IncludesNotAvailable(t) == t = NcuMissing

getMajorUpgrades(ncu, r) ==
    IF ~ncu THEN NcuMissing
    ELSE OrElse(runCommandSilent(r), "No major upgrades available")

checkPeerDependencies(r) ==
    OrElse(runCommandSilent(r), "No peer dependency warnings detected")

PeerStatusCommand(p) ==
    CASE p = "pnpm" -> "pnpm ls 2>&1 | grep -i \"warn\\|error\" | head -5"
      [] p = "yarn" -> "yarn list --depth=0 2>&1 | grep -i \"warn\\|error\" | head -5"
      [] OTHER -> "npm ls 2>&1 | grep -i \"warn\\|error\" | head -5"

AuditCommand(p) ==
    CASE p = "pnpm" -> "pnpm audit --audit-level moderate --format json"
      [] p = "yarn" -> "yarn audit --level moderate --json"
      [] OTHER -> "npm audit --audit-level moderate --json"

getSecurityAudit(r) ==
    IF Falsy(runCommandSilent(r))
    THEN "No security issues found or audit unavailable"
    ELSE IF runCommandSilent(r) = {Trim(AuditFound)} THEN "1 vulnerabilities found"
    ELSE IF runCommandSilent(r) = {Trim(AuditClean)} THEN "No security issues found"
    ELSE "Security audit completed (details available with full audit)"

\* QUICK_MODE: one outdated query, one verdict, return.
ScanQuick ==
    /\ rep.script = "scan"
    /\ rep.pc = "start"
    /\ rep.quick
    /\ \E r \in OutdatedOutcomes :
         /\ calls' = Append(calls, Call("getOutdatedPackages",
                                        OutdatedCommand(getPackageManager(lockfiles)),
                                        r, getOutdatedPackages(r)))
         /\ printed' = printed \o <<"Quick compatibility check...">>
               \o (IF IncludesNoOutdated(getOutdatedPackages(r))
                      \/ IncludesNotAvailable(getOutdatedPackages(r))
                   THEN <<"No immediate compatibility issues detected">>
                   ELSE <<"Some packages may need attention">>
                          \o (IF rep.brief THEN <<>>
                              ELSE <<"   Run \"pdc scan\" for detailed analysis">>))
         /\ rep' = [rep EXCEPT !.pm = getPackageManager(lockfiles),
                               !.outdated = getOutdatedPackages(r),
                               !.pc = "done", !.exit = 0]
    /\ UNCHANGED deps
    /\ UNCHANGED <<notRep, hung>>

\* Section 1, the project overview: reads package.json; without the file
\* the read throws and main().catch exits with code 1.
ScanOverview ==
    /\ rep.script = "scan"
    /\ rep.pc = "start"
    /\ ~rep.quick
    /\ IF manifest.exists
       THEN /\ rep' = [rep EXCEPT !.pm = getPackageManager(lockfiles), !.pc = "outdated"]
            /\ printed' = printed \o <<"Scanning your project...", "Project:",
                                       "Package Manager:", "Dependencies:">>
       ELSE /\ rep' = [rep EXCEPT !.pm = getPackageManager(lockfiles),
                                  !.pc = "done", !.exit = 1]
            /\ printed' = printed \o <<"Scanning your project...", "Scan failed:">>
    /\ UNCHANGED <<deps, calls>>
    /\ UNCHANGED <<notRep, hung>>

\* A section whose failed query is not caught by the runner: the exception
\* reaches main().catch.
ScanOutdatedThrows ==
    /\ rep.script = "scan"
    /\ rep.pc = "outdated"
    /\ \E r \in OutdatedOutcomes :
         /\ calls' = Append(calls, Call("getOutdatedPackages", OutdatedCommand(rep.pm),
                                        r, getOutdatedPackages(r)))
         /\ IF r.ok
            THEN /\ printed' = printed \o <<"OUTDATED PACKAGES", getOutdatedPackages(r)>>
                 /\ rep' = [rep EXCEPT !.outdated = getOutdatedPackages(r),
                                       !.pc = IF rep.brief THEN "peers" ELSE "major"]
            ELSE /\ printed' = printed \o <<"OUTDATED PACKAGES", "Scan failed:">>
                 /\ rep' = [rep EXCEPT !.pc = "done", !.exit = 1]
    /\ UNCHANGED deps
    /\ UNCHANGED <<notRep, hung>>

\* Section 2, OUTDATED PACKAGES.
ScanOutdated ==
    /\ rep.script = "scan"
    /\ rep.pc = "outdated"
    /\ \E r \in OutdatedOutcomes :
         /\ calls' = Append(calls, Call("getOutdatedPackages", OutdatedCommand(rep.pm),
                                        r, getOutdatedPackages(r)))
         /\ printed' = printed \o <<"OUTDATED PACKAGES", getOutdatedPackages(r)>>
         /\ rep' = [rep EXCEPT !.outdated = getOutdatedPackages(r),
                               !.pc = IF rep.brief THEN "peers" ELSE "major"]
    /\ UNCHANGED deps
    /\ UNCHANGED <<notRep, hung>>

\* Section 3, MAJOR UPGRADES AVAILABLE (not in brief mode). commandExists
\* runs `which ncu` without a timeout: when it never returns, the script
\* waits on it.
ScanMajor ==
    /\ rep.script = "scan"
    /\ rep.pc = "major"
    /\ \/ /\ calls' = Append(calls, Call("commandExists", "which ncu",
                                         Outcome(FALSE, "", "failed"), NcuMissing))
          /\ printed' = printed \o <<"MAJOR UPGRADES AVAILABLE", NcuMissing>>
          /\ rep' = [rep EXCEPT !.pc = "peers"]
          /\ UNCHANGED hung
       \/ \E r \in MajorOutcomes :
            /\ calls' = Append(calls, Call("getMajorUpgrades",
                                           "ncu --target major --format group",
                                           r, getMajorUpgrades(TRUE, r)))
            /\ printed' = printed \o <<"MAJOR UPGRADES AVAILABLE", getMajorUpgrades(TRUE, r)>>
            /\ rep' = [rep EXCEPT !.pc = "peers"]
            /\ UNCHANGED hung
       \/ /\ hung' = "which ncu"
          /\ printed' = Append(printed, "MAJOR UPGRADES AVAILABLE")
          /\ rep' = [rep EXCEPT !.pc = "blocked"]
          /\ UNCHANGED calls
    /\ UNCHANGED deps
    /\ UNCHANGED notRep

\* Section 4, PEER DEPENDENCY STATUS.
ScanPeers ==
    /\ rep.script = "scan"
    /\ rep.pc = "peers"
    /\ \E r \in ListingOutcomes :
         /\ calls' = Append(calls, Call("checkPeerDependencies", PeerStatusCommand(rep.pm),
                                        r, checkPeerDependencies(r)))
         /\ printed' = printed \o <<"PEER DEPENDENCY STATUS", checkPeerDependencies(r)>>
    /\ rep' = [rep EXCEPT !.pc = IF rep.brief THEN "recommend" ELSE "security"]
    /\ UNCHANGED deps
    /\ UNCHANGED <<notRep, hung>>

\* Section 5, SECURITY STATUS (not in brief mode).
ScanSecurity ==
    /\ rep.script = "scan"
    /\ rep.pc = "security"
    /\ \E r \in AuditOutcomes :
         /\ calls' = Append(calls, Call("getSecurityAudit", AuditCommand(rep.pm),
                                        r, getSecurityAudit(r)))
         /\ printed' = printed \o <<"SECURITY STATUS", getSecurityAudit(r)>>
    /\ rep' = [rep EXCEPT !.pc = "recommend"]
    /\ UNCHANGED deps
    /\ UNCHANGED <<notRep, hung>>

\* Section 6, RECOMMENDATIONS.
ScanRecommend ==
    /\ rep.script = "scan"
    /\ rep.pc = "recommend"
    /\ printed' = printed \o <<"RECOMMENDATIONS">>
          \o (IF IncludesNoOutdated(rep.outdated)
              THEN <<"All packages are up to date!">>
              ELSE <<"Next steps:">>)
          \o (IF rep.brief THEN <<>>
              ELSE <<"For detailed analysis of specific packages:">>)
    /\ rep' = [rep EXCEPT !.pc = "done", !.exit = 0]
    /\ UNCHANGED <<deps, calls>>
    /\ UNCHANGED <<notRep, hung>>

\* ------------------------------------------ the scan/analyze specification
\* The dependencies a project may declare: two watch-list packages and one
\* that is not on the list.
DepNames == {"react", "react-dom", "lodash"}
DepVersions == {"18.3.1", "^18.3.1", "19.0.0"}
DepMaps ==
    UNION {[S -> DepVersions] : S \in {T \in SUBSET DepNames : Cardinality(T) <= MaxDeclared}}

\* A .pdcrc.json as setup writes it, edited by the user to exclude react.
ExcludingConfig == [DefaultConfig("npm") EXCEPT !.excludePackages = {"react"}]

\* Neither script reads .pdcrc.json.
InitRep ==
    /\ manifest \in {NoManifest,
                     [exists |-> TRUE, hasScripts |-> FALSE, scripts |-> NoScripts,
                      devDep |-> FALSE]}
    /\ config \in {{}, {ExcludingConfig}}
    /\ lockfiles \in SUBSET LockFiles
    /\ binaries = {}
    /\ pdcOnPath = FALSE
    /\ installWorks = FALSE
    /\ pc = "idle"
    /\ pm = "none"
    /\ runs = 0
    /\ exitCode = -1
    /\ pre = Snapshot
    /\ argv = {}
    /\ log = <<>>
    /\ pdcExit = -1
    /\ probe = IdleProbe
    /\ IdleCli
    /\ deps \in (IF manifest.exists THEN DepMaps ELSE {NoDeps})
    /\ \E script \in {"scan", "analyze"}, q \in BOOLEAN, b \in BOOLEAN :
         /\ script = "analyze" => ~q
         /\ rep = [script |-> script, quick |-> q, brief |-> b, pc |-> "start",
                   pm |-> "none", outdated |-> "", issues |-> "", watch |-> 0,
                   conflicts |-> <<>>, exit |-> -1]
    /\ printed = <<>>
    /\ calls = <<>>
    /\ hung = "none"
    /\ inv = IdleInv
    /\ inst = IdleInst
    /\ dry = IdleDry
    /\ race = IdleRace

NextRep ==
    \/ AnalyzeBrief
    \/ AnalyzeStatus
    \/ AnalyzeReadDeps
    \/ AnalyzeWatch
    \/ AnalyzeReport
    \/ ScanQuick
    \/ ScanOverview
    \/ ScanOutdated
    \/ ScanMajor
    \/ ScanPeers
    \/ ScanSecurity
    \/ ScanRecommend

SpecRep == InitRep /\ [][NextRep]_vars

\* ------------------------------------- QUICK_MODE and BRIEF_MODE
\* An environment variable is the set holding its value, empty when unset.
\* pdc.js, scan action: `options.quick ? { ...process.env, QUICK_MODE: 'true' }
\* : process.env`; the child is started without arguments.
scanEnv(flags, env) ==
    IF "--quick" \in flags THEN [env EXCEPT !.QUICK_MODE = {"true"}] ELSE env

\* pdc.js, analyze action.
analyzeEnv(flags, env) ==
    IF "--brief" \in flags THEN [env EXCEPT !.BRIEF_MODE = {"true"}] ELSE env

\* upgrade-check.js, lines 13-14.
QUICK_MODE(env, args) == env.QUICK_MODE = {"true"} \/ "--quick" \in args
BRIEF_MODE(env, args) == env.BRIEF_MODE = {"true"} \/ "--brief" \in args

\* peer-check.js, line 12: process.argv is not read.
PeerCheckBRIEF_MODE(env, args) == env.BRIEF_MODE = {"true"}

\* `pdc scan [--quick]`, or `node src/upgrade-check.js [--quick] [--brief]`.
StartScan ==
    /\ inv.script = "scan"
    /\ ~inv.started
    /\ inv' = IF inv.via = "pdc"
              THEN [inv EXCEPT !.started = TRUE,
                               !.quick = QUICK_MODE(scanEnv(inv.flags, inv.env), {}),
                               !.brief = BRIEF_MODE(scanEnv(inv.flags, inv.env), {})]
              ELSE [inv EXCEPT !.started = TRUE,
                               !.quick = QUICK_MODE(inv.env, inv.flags),
                               !.brief = BRIEF_MODE(inv.env, inv.flags)]
    /\ UNCHANGED notMode

\* `pdc analyze [--brief]`, or `node src/peer-check.js [--brief]`.
StartAnalyze ==
    /\ inv.script = "analyze"
    /\ ~inv.started
    /\ inv' = IF inv.via = "pdc"
              THEN [inv EXCEPT !.started = TRUE,
                               !.brief = PeerCheckBRIEF_MODE(analyzeEnv(inv.flags, inv.env), {})]
              ELSE [inv EXCEPT !.started = TRUE,
                               !.brief = PeerCheckBRIEF_MODE(inv.env, inv.flags)]
    /\ UNCHANGED notMode

\* The values an environment variable may hold: unset, empty, or a string.
EnvValues == {{}, {""}, {"true"}, {"1"}, {"false"}}
\* The options each entry point documents or reads.
InitMode ==
    /\ IdleSetup
    /\ lockfiles = {}
    /\ binaries = {}
    /\ probe = IdleProbe
    /\ IdleCli
    /\ IdleRep
    /\ hung = "none"
    /\ inst = IdleInst
    /\ dry = IdleDry
    /\ race = IdleRace
    /\ \E script \in {"scan", "analyze"}, via \in {"pdc", "direct"},
          q \in EnvValues, b \in EnvValues :
         \E flags \in SUBSET (IF script = "analyze" THEN {"--brief"}
                               ELSE IF via = "pdc" THEN {"--quick"}
                               ELSE {"--quick", "--brief"}) :
            inv = [script |-> script, via |-> via, flags |-> flags,
                   env |-> [QUICK_MODE |-> q, BRIEF_MODE |-> b],
                   started |-> FALSE, quick |-> FALSE, brief |-> FALSE]

NextMode ==
    \/ StartScan
    \/ StartAnalyze

SpecMode == InitMode /\ [][NextMode]_vars

\* --------------------------------------------- the read-only commands
\* One invocation of any of check, precheck, scan and analyze.
InitReadOnly == InitCli \/ InitRep

NextReadOnly ==
    \/ NextCli
    \/ NextRep

SpecReadOnly == InitReadOnly /\ [][NextReadOnly]_vars

\* ------------------------------------------------------- bin/pdc-install
SUPPORTED_MANAGERS == {"npm", "pnpm", "yarn", "bun"}
INSTALL_COMMANDS == {"install", "add", "i"}

\* arg.startsWith('-'), and arg.includes('@') || /^[a-z]/.test(arg), on the
\* arguments of the model.
extractPackages(args) ==
    LET StartsWithDash(a) == a \in {"--save-dev", "-D"}
        LooksLikePackage(a) == a \in {"react@19", "lodash", "@types/react"}
        IsPackageArg(a) == ~StartsWithDash(a) /\ LooksLikePackage(a)
    IN  SelectSeq(args, IsPackageArg)

\* answer.toLowerCase().trim() on the answers of the model.
Normalize(raw) ==
    CASE raw \in {"y", "Y", " y\n"} -> "y"
      [] raw \in {"yes", "YES", " Yes "} -> "yes"
      [] raw = "N" -> "n"
      [] raw = " " -> ""
      [] OTHER -> raw

\* main(), lines 84-116: help, the two validations, and the start of the
\* precheck child (execSync of `pdc precheck`).
InstallBegin ==
    /\ inst.pc = "start"
    /\ inst' =
         IF Len(inst.args) = 0 \/ inst.args[1] \in {"--help", "-h"}
         THEN [inst EXCEPT !.pc = "done", !.exit = 0, !.log = <<"Usage:">>]
         ELSE IF inst.args[1] \notin SUPPORTED_MANAGERS
         THEN [inst EXCEPT !.pc = "done", !.exit = 1,
                           !.log = <<"Unsupported package manager:">>]
         ELSE IF Len(inst.args) < 2 \/ inst.args[2] \notin INSTALL_COMMANDS
         THEN [inst EXCEPT !.pc = "done", !.exit = 1,
                           !.log = <<"Unsupported command:">>]
         ELSE [inst EXCEPT !.pc = "precheck",
                           !.packages = extractPackages(SubSeq(inst.args, 3, Len(inst.args))),
                           !.running = @ \cup {"precheck"},
                           !.events = Append(@, "precheck:start"),
                           !.log = <<IF Len(extractPackages(SubSeq(inst.args, 3, Len(inst.args)))) = 0
                                     THEN "No packages detected, running basic compatibility check..."
                                     ELSE "Detected packages:",
                                     "Running peer dependency pre-check...">>]
    /\ UNCHANGED <<notLate, dry, race>>

\* runPrecheck: execSync returns or throws, both give true; then the prompt
\* is shown.
PrecheckReturn ==
    /\ inst.pc = "precheck"
    /\ \E ok \in BOOLEAN :
         inst' = [inst EXCEPT !.pc = "prompt",
                              !.running = @ \ {"precheck"},
                              !.events = @ \o <<"precheck:end", "prompt">>,
                              !.log = Append(@, IF ok THEN "Pre-check completed"
                                                ELSE "Pre-check had issues, but continuing...")]
    /\ UNCHANGED <<notLate, dry, race>>

\* A prompt whose default (the empty answer) is yes.
AnswerPromptDefaultYes ==
    /\ inst.pc = "prompt"
    /\ \E raw \in {"y", "Y", " y\n", "yes", "YES", " Yes ", "N", " ", "", "no", "yep"} :
         inst' = IF Normalize(raw) \in {"y", "yes", ""}
                 THEN [inst EXCEPT !.pc = "spawn", !.answer = raw,
                                   !.events = Append(@, "answer"),
                                   !.log = Append(@, "Running:")]
                 ELSE [inst EXCEPT !.pc = "done", !.answer = raw, !.exit = 0,
                                   !.events = Append(@, "answer"),
                                   !.log = Append(@, "Installation cancelled by user")]
    /\ UNCHANGED <<notLate, dry, race>>

\* The readline callback and lines 119-128 of main().
AnswerPrompt ==
    /\ inst.pc = "prompt"
    /\ \E raw \in {"y", "Y", " y\n", "yes", "YES", " Yes ", "N", " ", "", "no", "yep"} :
         inst' = IF Normalize(raw) \in {"y", "yes"}
                 THEN [inst EXCEPT !.pc = "spawn", !.answer = raw,
                                   !.events = Append(@, "answer"),
                                   !.log = Append(@, "Running:")]
                 ELSE [inst EXCEPT !.pc = "done", !.answer = raw, !.exit = 0,
                                   !.events = Append(@, "answer"),
                                   !.log = Append(@, "Installation cancelled by user")]
    /\ UNCHANGED <<notLate, dry, race>>

\* A spawn that starts the post-install check without waiting for the
\* install to close.
SpawnInstallAndCheck ==
    /\ inst.pc = "spawn"
    /\ inst' = [inst EXCEPT !.pc = "installing",
                            !.running = @ \cup {"install", "postcheck"},
                            !.events = @ \o <<"install:start", "postcheck:start">>]
    /\ UNCHANGED <<notLate, dry, race>>

\* spawn(packageManager, [command, ...installArgs]) and the registration of
\* the close handler; main() returns. A binary that cannot be started gives
\* an 'error' event nobody listens to, and the process dies with code 1.
SpawnInstall ==
    /\ inst.pc = "spawn"
    /\ \/ inst' = [inst EXCEPT !.pc = "installing",
                               !.running = @ \cup {"install"},
                               !.events = Append(@, "install:start")]
       \/ inst' = [inst EXCEPT !.pc = "done", !.exit = 1,
                               !.events = Append(@, "install:error")]
    /\ UNCHANGED <<notLate, dry, race>>

\* A close handler that runs the post-install check whatever the code.
InstallCloseAlwaysChecks ==
    /\ inst.pc = "installing"
    /\ \E code \in {{0}, {1}, {2}, {}} :
         inst' = [inst EXCEPT !.pc = "postcheck", !.closed = {code},
                              !.running = (@ \ {"install"}) \cup {"postcheck"},
                              !.events = @ \o <<"install:close", "postcheck:start">>,
                              !.log = @ \o <<"Running post-install check...">>]
    /\ UNCHANGED <<notLate, dry, race>>

\* child.on('close'), lines 137-156: on code 0 the post-install check is
\* started (execSync of `pdc analyze --brief`), otherwise process.exit(code).
\* The code is a set: {c}, or the empty set for the null of a child killed by
\* a signal, with which process.exit leaves the exit code at 0.
InstallClose ==
    /\ inst.pc = "installing"
    /\ \E code \in {{0}, {1}, {2}, {}} :
         inst' = IF code = {0}
                 THEN [inst EXCEPT !.pc = "postcheck", !.closed = {code},
                                   !.running = (@ \ {"install"}) \cup {"postcheck"},
                                   !.events = @ \o <<"install:close", "postcheck:start">>,
                                   !.log = @ \o <<"Installation completed successfully!",
                                                  "Running post-install check...">>]
                 ELSE [inst EXCEPT !.pc = "done", !.closed = {code},
                                   !.running = @ \ {"install"},
                                   !.events = Append(@, "install:close"),
                                   !.log = Append(@, "Installation failed with exit code"),
                                   !.exit = IF code = {} THEN 0
                                           ELSE CHOOSE c \in code : TRUE]
    /\ UNCHANGED <<notLate, dry, race>>

\* The post-install check returns or throws; the handler ends and with it
\* the process.
PostcheckReturn ==
    /\ inst.pc = "postcheck"
    /\ \E ok \in BOOLEAN :
         inst' = [inst EXCEPT !.pc = "done", !.exit = 0,
                              !.running = @ \ {"postcheck"},
                              !.events = Append(@, IF ok THEN "postcheck:end"
                                                   ELSE "postcheck:failed"),
                              !.log = IF ok THEN @
                                      ELSE Append(@, "Post-install check had issues")]
    /\ UNCHANGED <<notLate, dry, race>>

\* The command lines: a first word, a second word, and the arguments.
CommandLines ==
    LET FirstWords == SUPPORTED_MANAGERS \cup {"pip", "--help"}
        SecondWords == INSTALL_COMMANDS \cup {"remove"}
        InstallArgs == {"react@19", "--save-dev", "React"}
        ArgTails == UNION {[1..n -> InstallArgs] : n \in 0..MaxInstallArgs}
    IN  {<<>>} \cup {<<a>> : a \in FirstWords}
               \cup {<<a, b>> \o t : a \in FirstWords, b \in SecondWords, t \in ArgTails}

InitInstall ==
    /\ IdleSetup
    /\ lockfiles = {}
    /\ binaries = {}
    /\ probe = IdleProbe
    /\ IdleCli
    /\ IdleRep
    /\ hung = "none"
    /\ inv = IdleInv
    /\ dry = IdleDry
    /\ race = IdleRace
    /\ \E line \in CommandLines : inst = [IdleInst EXCEPT !.args = line, !.pc = "start"]

NextInstall ==
    \/ InstallBegin
    \/ PrecheckReturn
    \/ AnswerPrompt
    \/ SpawnInstall
    \/ InstallClose
    \/ PostcheckReturn

SpecInstall == InitInstall /\ [][NextInstall]_vars

\* ------------------------------------- the comprehensive upgrade check
\* A file is the set holding its content, empty when the file is absent.

\* A restore that leaves the backup file behind.
restorePackageJsonKeep(d) ==
    IF d.backup # {} THEN [d EXCEPT !.pkg = d.backup] ELSE d

\* restorePackageJson: copy the backup over package.json and unlink it, when
\* the backup exists.
restorePackageJson(d) ==
    IF d.backup # {} THEN [d EXCEPT !.pkg = d.backup, !.backup = {}] ELSE d

\* createTestPackageJson and the test of hasBackup (lines 83-85); steps 1 to
\* 5 before it only run commands and print.
CreateBackup ==
    /\ dry.pc = "start"
    /\ dry' = IF dry.pkg # {}
              THEN [dry EXCEPT !.pc = "6a", !.backup = dry.pkg,
                               !.orig = dry.pkg, !.hasBackup = TRUE]
              ELSE [dry EXCEPT !.pc = "after"]
    /\ UNCHANGED <<notLate, inst, race>>

\* 6a, `ncu --target greatest -u`: rewrites package.json; a failing run may
\* or may not have written; runCommand sets no timeout, so the command may
\* never return; anything thrown past runCommand's catch goes to finally.
UpgradeInPlace ==
    /\ dry.pc = "6a"
    /\ \/ dry' = [dry EXCEPT !.pc = "6b", !.pkg = {"upgraded"}, !.upgraded = TRUE]
       \/ \E wrote \in BOOLEAN :
            dry' = [dry EXCEPT !.pc = "6b", !.failed = @ \cup {"6a"},
                               !.pkg = IF wrote THEN {"upgraded"} ELSE @,
                               !.upgraded = wrote]
       \/ dry' = [dry EXCEPT !.pc = "blocked", !.pkg = {"upgraded"}, !.upgraded = TRUE]
       \/ dry' = [dry EXCEPT !.pc = "finally", !.thrown = TRUE]
    /\ UNCHANGED <<notLate, inst, race>>

\* 6b and 6c: the dry-run install and the listing, which write nothing.
DryRunCommand ==
    /\ dry.pc \in {"6b", "6c"}
    /\ \E ok \in BOOLEAN, throws \in BOOLEAN :
         dry' = IF throws
                THEN [dry EXCEPT !.pc = "finally", !.thrown = TRUE]
                ELSE [dry EXCEPT !.pc = IF dry.pc = "6b" THEN "6c" ELSE "finally",
                                 !.failed = IF ok THEN @ ELSE @ \cup {dry.pc}]
    /\ UNCHANGED <<notLate, inst, race>>

\* The finally block; an error thrown in the try then reaches main's catch,
\* which prints it and lets main return.
Finally ==
    /\ dry.pc = "finally"
    /\ dry' = [restorePackageJson(dry) EXCEPT !.pc = IF dry.thrown THEN "end" ELSE "after"]
    /\ UNCHANGED <<notLate, inst, race>>

\* Steps 7 to 10 and the recommendations: commands that write nothing.
Remaining ==
    /\ dry.pc = "after"
    /\ dry' = [dry EXCEPT !.pc = "end"]
    /\ UNCHANGED <<notLate, inst, race>>

\* A SIGINT sent to the process. main() is synchronous from its first to
\* its last line, so the handler runs when main has returned.
Interrupt ==
    /\ dry.pc \in {"start", "6a", "6b", "6c", "finally", "after"}
    /\ ~dry.sigint
    /\ dry' = [dry EXCEPT !.sigint = TRUE]
    /\ UNCHANGED <<notLate, inst, race>>

\* main has returned: a pending SIGINT runs its handler (restore, then
\* process.exit(1)); otherwise the process ends by itself. Both emit 'exit',
\* whose handler restores once more.
ProcessExit ==
    /\ dry.pc = "end"
    /\ dry' = IF dry.sigint
              THEN [restorePackageJson(restorePackageJson(dry)) EXCEPT
                       !.pc = "done", !.exit = 1]
              ELSE [restorePackageJson(dry) EXCEPT !.pc = "done", !.exit = 0]
    /\ UNCHANGED <<notLate, inst, race>>

\* The project before the run: package.json present or not, and possibly a
\* package.json.backup left by an earlier run.
InitDry ==
    /\ IdleSetup
    /\ lockfiles = {}
    /\ binaries = {}
    /\ probe = IdleProbe
    /\ IdleCli
    /\ IdleRep
    /\ hung = "none"
    /\ inv = IdleInv
    /\ inst = IdleInst
    /\ race = IdleRace
    /\ \E p \in {{}} \cup {{"v1"}, {"v2"}}, b \in {{}, {"stale"}} :
         dry = [IdleDry EXCEPT !.pc = "start", !.pkg = p, !.backup = b]

NextDry ==
    \/ CreateBackup
    \/ UpgradeInPlace
    \/ DryRunCommand
    \/ Finally
    \/ Remaining
    \/ Interrupt
    \/ ProcessExit

SpecDry == InitDry /\ [][NextDry]_vars

\* ----------------------------------- two setup processes on one project
\* Each process runs main() of setup.js; the files are shared and no step
\* takes a lock. A process reads package.json in setupPackageScripts and
\* writes the whole file later; it tests for .pdcrc.json and writes it later.
\* main(), lines 49-62: the manifest check and the detection.
RaceStart(r) ==
    /\ race.run[r].pc = "start"
    /\ race' = IF ~race.file.exists
               THEN [race EXCEPT !.run[r].pc = "done", !.run[r].exit = 1]
               ELSE [race EXCEPT !.run[r].pc = "install",
                                 !.run[r].pm = detectPackageManager(race.locks, {})]
    /\ UNCHANGED <<notLate, inst, dry>>

\* installPeerDependencyChecker: skipped when pdc is global; otherwise the
\* package manager adds the devDependency, maybe its lockfile, or fails.
RaceInstall(r) ==
    /\ race.run[r].pc = "install"
    /\ \/ /\ race.global
          /\ race' = [race EXCEPT !.run[r].pc = "read"]
       \/ /\ ~race.global
          /\ \E wrote \in BOOLEAN :
               race' = [race EXCEPT !.run[r].pc = "read",
                                    !.file.devDep = TRUE,
                                    !.locks = IF wrote THEN @ \cup {LockOf(race.run[r].pm)}
                                              ELSE @]
       \/ /\ ~race.global
          /\ race' = [race EXCEPT !.run[r].pc = "done", !.run[r].exit = 1]
    /\ UNCHANGED <<notLate, inst, dry>>

\* setupPackageScripts, line 148: readFileSync.
RaceRead(r) ==
    /\ race.run[r].pc = "read"
    /\ race' = [race EXCEPT !.run[r].pc = "write", !.run[r].read = race.file]
    /\ UNCHANGED <<notLate, inst, dry>>

\* setupPackageScripts, lines 150-167: the merge into what was read, and
\* writeFileSync of the whole file.
RaceWrite(r) ==
    /\ race.run[r].pc = "write"
    /\ race' = [race EXCEPT !.run[r].pc = "check",
                            !.file = setupPackageScripts(race.run[r].read, race.run[r].pm)]
    /\ UNCHANGED <<notLate, inst, dry>>

\* createConfig, line 215: existsSync.
RaceCheckConfig(r) ==
    /\ race.run[r].pc = "check"
    /\ race' = [race EXCEPT !.run[r].pc = "config", !.run[r].seen = (race.cfg # {})]
    /\ UNCHANGED <<notLate, inst, dry>>

\* createConfig, lines 216-231: return, or writeFileSync of the defaults.
RaceWriteConfig(r) ==
    /\ race.run[r].pc = "config"
    /\ race' = [race EXCEPT !.run[r].pc = "test",
                            !.cfg = IF race.run[r].seen THEN @
                                    ELSE createConfig({}, race.run[r].pm)]
    /\ UNCHANGED <<notLate, inst, dry>>

\* testSetup and the end of main().
RaceTest(r) ==
    /\ race.run[r].pc = "test"
    /\ \E ok \in BOOLEAN :
         /\ race.global => ok
         /\ race' = [race EXCEPT !.run[r].pc = "done",
                                 !.run[r].exit = IF ok THEN 0 ELSE 1]
    /\ UNCHANGED <<notLate, inst, dry>>

InitRace ==
    /\ IdleSetup
    /\ lockfiles = {}
    /\ binaries = {}
    /\ probe = IdleProbe
    /\ IdleCli
    /\ IdleRep
    /\ hung = "none"
    /\ inv = IdleInv
    /\ inst = IdleInst
    /\ dry = IdleDry
    /\ \E m \in InitManifests, c \in {{}, {CustomConfig}},
          l \in {{}, {"yarn.lock"}}, g \in BOOLEAN :
         race = [file |-> m, orig |-> m, cfg |-> c, locks |-> l, global |-> g,
                 run |-> [r \in {1, 2} |-> [IdleRace.run[r] EXCEPT !.pc = "start"]]]

NextRace ==
    \E r \in {1, 2} :
        \/ RaceStart(r)
        \/ RaceInstall(r)
        \/ RaceRead(r)
        \/ RaceWrite(r)
        \/ RaceCheckConfig(r)
        \/ RaceWriteConfig(r)
        \/ RaceTest(r)

SpecRace == InitRace /\ [][NextRace]_vars

\* ================================================================ claims
\* C1: a script key that is present before a setup run (whatever its value)
\* has the same value at every later point of that run.
C1_PresentKeysKept ==
    \A k \in ToolKeys :
        (pre.manifest.hasScripts /\ k \in DOMAIN pre.manifest.scripts)
            => /\ k \in DOMAIN manifest.scripts
               /\ manifest.scripts[k] = pre.manifest.scripts[k]

\* C2: when a second (or later) setup run in a row has finished, the scripts
\* map and .pdcrc.json are what they were after the run before it.
C2_SetupIdempotent ==
    (pc = "idle" /\ runs >= 2)
        => /\ manifest.hasScripts = pre.manifest.hasScripts
           /\ manifest.scripts = pre.manifest.scripts
           /\ config = pre.config

\* Two complete runs on a project that had its own preinstall hook and no
\* .pdcrc.json: the first run added scripts and created the file.
C2_Witness ==
    /\ pc = "idle" /\ runs = 2 /\ exitCode = 0
    /\ ~pdcOnPath
    /\ manifest.scripts["preinstall"] = <<"echo original">>
    /\ manifest.scripts["pdc:scan"] = <<"pdc scan">>
    /\ config = {DefaultConfig("yarn")}

\* C3: .pdcrc.json is written only when absent: no step changes an existing
\* file, whatever its content.
C3_ExistingConfigKept ==
    [][config # {} => config' = config]_vars

\* createConfig has run on a project whose .pdcrc.json carries an unknown key.
C3_Witness ==
    /\ pc = "test"
    /\ pre.config = {CustomConfig}
    /\ config = {CustomConfig}

LockPrecedence == <<"bun.lockb", "pnpm-lock.yaml", "yarn.lock", "package-lock.json">>
BinPrecedence == <<"bun", "pnpm", "yarn", "npm">>
ManagerOfLock(l) ==
    CASE l = "bun.lockb" -> "bun"
      [] l = "pnpm-lock.yaml" -> "pnpm"
      [] l = "yarn.lock" -> "yarn"
      [] l = "package-lock.json" -> "npm"

\* C4: with at least one lockfile present, detectPackageManager returns the
\* manager of the first lockfile present in the order bun.lockb,
\* pnpm-lock.yaml, yarn.lock, package-lock.json.
C4_LockfilePrecedence ==
    (probe.detect # "none" /\ lockfiles # {})
        => \E i \in 1..4 :
              /\ LockPrecedence[i] \in lockfiles
              /\ \A j \in 1..(i - 1) : LockPrecedence[j] \notin lockfiles
              /\ probe.detect = ManagerOfLock(LockPrecedence[i])

C4_Witness ==
    /\ lockfiles = {"bun.lockb", "package-lock.json"}
    /\ probe.detect = "bun"

\* C5: detectPackageManager always returns one of the four managers (it does
\* not throw); with no lockfile it returns the first of bun, pnpm, yarn, npm
\* whose version check succeeds, and npm when none succeeds.
C5_BinaryProbeAndFallback ==
    probe.detect # "none"
        => /\ probe.detect \in Managers
           /\ lockfiles = {}
                => IF binaries = {}
                   THEN probe.detect = "npm"
                   ELSE \E i \in 1..4 :
                          /\ BinPrecedence[i] \in binaries
                          /\ \A j \in 1..(i - 1) : BinPrecedence[j] \notin binaries
                          /\ probe.detect = BinPrecedence[i]

C5_Witness ==
    /\ lockfiles = {}
    /\ binaries = {"yarn", "npm"}
    /\ probe.detect = "yarn"

\* C6: in every directory, getPackageManager of the scan and analyze scripts
\* returns what setup's detectPackageManager returns.
C6_SameManagerEverywhere ==
    (probe.detect # "none" /\ probe.get # "none") => probe.get = probe.detect

\* The lines that report a package's peer dependencies, in print order.
ResultTexts ==
    {"Peer deps: ", "No peer dependencies required",
     "Error: Could not fetch info for ", "Could not fetch info for "}
IsResultLine(l) == l.text \in ResultTexts
ResultLines == SelectSeq(output, IsResultLine)
Blank(o) == o \in {"", "\n"}

VersionAt(s) ==
    IF \E i \in 2..Len(s) : s[i] = At
    THEN CHOOSE i \in 2..Len(s) : s[i] = At /\ \A j \in 2..(i - 1) : s[j] # At
    ELSE 0
HasExplicitVersion(s) == VersionAt(s) # 0 /\ VersionAt(s) < Len(s)
NpmResolve(s) ==
    [name |-> IF VersionAt(s) = 0 THEN s ELSE SubSeq(s, 1, VersionAt(s) - 1),
     version |-> IF HasExplicitVersion(s) THEN SubSeq(s, VersionAt(s) + 1, Len(s))
                 ELSE Latest]

Printed(t) == \E i \in 1..Len(printed) : printed[i] = t

\* C7: getPeerDependencies returns null exactly when the query failed or its
\* output does not parse, and a query that succeeds for a package without
\* peer dependencies returns the empty mapping, not null.
C7_NullOnlyOnFailure ==
    \A i \in 1..Len(calls) :
        calls[i].fn = "getPeerDependencies"
            => /\ (calls[i].result = Null)
                    <=> (~calls[i].ok \/ ~JsonParses(Trim(calls[i].out)))
               /\ (calls[i].ok /\ calls[i].truth = "clean")
                    => calls[i].result = {EmptyMap}

\* C9: scan prints its all-clear only after an outdated query that ran
\* successfully and found nothing, and analyze prints its all-clear only
\* after a dependency listing that ran successfully and gave no warning.
C9_AllClearOnlyAfterCleanQuery ==
    /\ (Printed("All packages are up to date!")
        \/ Printed("No immediate compatibility issues detected"))
          => \E i \in 1..Len(calls) :
                /\ calls[i].fn = "getOutdatedPackages"
                /\ calls[i].ok
                /\ calls[i].truth = "clean"
    /\ (Printed("No peer dependency conflicts found")
        \/ Printed("Your peer dependencies look good!"))
          => \E i \in 1..Len(calls) :
                /\ calls[i].fn = "getCurrentPeerIssues"
                /\ calls[i].ok
                /\ calls[i].truth = "clean"

\* C11: for a package argument of the form name@version, scoped names
\* included, the registry is asked for exactly that name at exactly that
\* version.
C11_ExactNameAndVersion ==
    \A i \in 1..Len(issued) :
        HasExplicitVersion(packages[i])
            => NpmResolve(issued[i].spec) = NpmResolve(packages[i])

\* What each caller of the process runner hands back when the call failed.
FallbackOf(fn) ==
    CASE fn = "getOutdatedPackages" -> "No outdated packages found or lockfile missing"
      [] fn = "getMajorUpgrades" -> "No major upgrades available"
      [] fn = "checkPeerDependencies" -> "No peer dependency warnings detected"
      [] fn = "getSecurityAudit" -> "No security issues found or audit unavailable"
      [] fn = "getCurrentPeerIssues" -> "No peer dependency issues detected"
      [] OTHER -> ""
AllPrinted(ts) == \A t \in ts : Printed(t)

\* C12: in scan, analyze and check a failed subprocess (non-zero exit,
\* timeout, output that does not parse) never ends the command: the caller
\* gets its fallback on failure and the trimmed output on success, a script
\* ends with an error exit only when package.json is missing, a finished
\* report has all its sections, every package processed by check has its
\* query and its result line, and while something remains to be done the
\* next step can be taken.
C12_FailuresAreAbsorbed ==
    /\ \A i \in 1..Len(calls) :
         /\ (~calls[i].ok /\ calls[i].fn \in {"getOutdatedPackages", "getMajorUpgrades",
                 "checkPeerDependencies", "getSecurityAudit", "getCurrentPeerIssues"})
              => calls[i].result = FallbackOf(calls[i].fn)
         /\ (calls[i].fn = "getPeerDependencies"
               /\ (~calls[i].ok \/ calls[i].out = Notice))
              => calls[i].result = Null
         /\ (calls[i].fn = "getSecurityAudit" /\ calls[i].ok /\ calls[i].out = Notice)
              => calls[i].result = "Security audit completed (details available with full audit)"
         /\ (calls[i].fn = "getOutdatedPackages" /\ calls[i].ok
               /\ calls[i].out = OutdatedTable)
              => calls[i].result
                   = "Package  Current  Wanted  Latest\nreact  18.3.1  18.3.1  19.0.0"
    /\ rep.exit = 1 => ~manifest.exists
    /\ (rep.pc = "done" /\ rep.exit = 0 /\ rep.script = "scan" /\ ~rep.quick)
         => /\ AllPrinted({"OUTDATED PACKAGES", "PEER DEPENDENCY STATUS", "RECOMMENDATIONS"})
            /\ ~rep.brief => AllPrinted({"MAJOR UPGRADES AVAILABLE", "SECURITY STATUS"})
    /\ (rep.pc = "done" /\ rep.exit = 0 /\ rep.script = "analyze" /\ ~rep.brief)
         => AllPrinted({"CURRENT PEER DEPENDENCY STATUS", "POTENTIAL UPGRADE CONFLICTS",
                        "RECOMMENDATIONS"})
    /\ (cliCmd = "check" /\ cliPos >= 0 /\ Len(packages) > 0)
         => Len(issued) = cliPos /\ Len(ResultLines) = cliPos
    /\ (hung = "none" /\ rep.script # "none" /\ rep.pc # "done") => ENABLED NextRep
    /\ (hung = "none" /\ cliCmd = "check" /\ cliPos < Len(packages)) => ENABLED NextCli

\* A full scan has finished with exit code 0 and all its sections although
\* every one of its four queries failed.
C12_Witness ==
    /\ rep.script = "scan" /\ ~rep.quick /\ ~rep.brief
    /\ rep.pc = "done" /\ rep.exit = 0
    /\ Len(calls) = 4
    /\ \A i \in 1..4 : ~calls[i].ok
    /\ calls[2].fn = "getMajorUpgrades"
    /\ Printed("SECURITY STATUS") /\ Printed("RECOMMENDATIONS")

\* C13: every subprocess call of scan, analyze, check, precheck and setup is
\* bounded by a timeout, so no command is ever left waiting on a subprocess
\* that does not return.
C13_NoCommandWaitsForever ==
    hung = "none"

\* The positions of the registry queries analyze made.
InfoCalls == {i \in 1..Len(calls) : calls[i].fn = "getPeerDependencies"}

\* C14 as stated: within one invocation of check, precheck or analyze no
\* two registry queries are for the same package.
C14_AtMostOncePerPackage ==
    /\ \A i, j \in 1..Len(issued) : i # j => issued[i].spec # issued[j].spec
    /\ \A i, j \in InfoCalls : i # j => calls[i].cmd # calls[j].cmd

\* C14, amended: check and precheck make exactly one registry query per
\* package argument processed, the i-th query being for the i-th argument
\* (a package named twice on the command line is queried once per
\* occurrence), and analyze queries no package twice and only packages the
\* project declares; a failed query is never repeated.
C14_OneQueryPerArgument ==
    /\ (cliPos >= 0 /\ Len(packages) > 0)
         => /\ Len(issued) = cliPos
            /\ \A i \in 1..cliPos :
                 NpmResolve(issued[i].spec).name = NpmResolve(packages[i]).name
    /\ Len(packages) = 0 => issued = <<>>
    /\ \A i, j \in InfoCalls : i # j => calls[i].cmd # calls[j].cmd
    /\ \A i \in InfoCalls : calls[i].cmd \in DOMAIN deps
    /\ Cardinality(InfoCalls) <= (IF rep.watch > 0 THEN rep.watch - 1 ELSE 0)

\* check has gone on to its second argument after the query for the first
\* one failed: two queries for two arguments.
C14_Witness ==
    /\ cliCmd = "check"
    /\ packages = << <<"r", At, "1", "9">>, <<"r">> >>
    /\ cliPos = 2
    /\ Len(issued) = 2
    /\ ~issued[1].ok
    /\ issued[2].ok

\* C15: without package.json setup starts none of its steps, and the run
\* ends with exit code 1 (also from `pdc setup`), having printed the
\* missing-manifest message and nothing else, with package.json still absent
\* and .pdcrc.json as it was.
C15_MissingManifestFailsFast ==
    /\ ~manifest.exists => pc = "idle"
    /\ (pc = "idle" /\ runs > 0 /\ ~pre.manifest.exists)
         => /\ exitCode = 1
            /\ pdcExit = 1
            /\ log = <<"No package.json found. Please run this in a Node.js project root.">>
            /\ manifest = pre.manifest
            /\ config = pre.config
            /\ hung = "none"

\* A setup run in a directory without package.json and without .pdcrc.json
\* has ended.
C15_Witness ==
    /\ pc = "idle" /\ runs = 1
    /\ ~manifest.exists
    /\ config = {}
    /\ exitCode = 1 /\ pdcExit = 1
    /\ Len(log) = 1

\* C16: whatever is missing in the directory (package.json, lockfile,
\* package-manager binary), a scan or analyze script that has ended has
\* ended with exit code 0 and without a failure message.
C16_ReadOnlyFlowsDegrade ==
    rep.pc = "done"
        => /\ rep.exit = 0
           /\ ~Printed("Scan failed:")
           /\ ~Printed("Analysis failed:")

InLog(t) == \E i \in 1..Len(log) : log[i] = t

\* C17: the smoke test changes neither package.json nor .pdcrc.json, and a
\* run whose smoke test failed has reported the failure and leaves the
\* merged tool scripts and a .pdcrc.json on disk.
C17_SmokeTestFailureKeepsFiles ==
    /\ [][pc = "test" => (manifest' = manifest /\ config' = config)]_vars
    /\ []((pc = "idle" /\ InLog("CLI not accessible"))
            => /\ InLog("Setup failed:")
               /\ exitCode = 1
               /\ manifest.hasScripts
               /\ \A k \in ToolKeys :
                    k \in DOMAIN manifest.scripts /\ Truthy(manifest.scripts[k])
               /\ config # {}
               /\ pre.config # {} => config = pre.config)

\* A first run on a project without scripts and without .pdcrc.json has
\* ended in a failed smoke test: the hooks and the file are there.
C17_Witness ==
    /\ pc = "idle" /\ runs = 1 /\ exitCode = 1
    /\ InLog("CLI not accessible")
    /\ ~pre.manifest.hasScripts
    /\ pre.config = {}
    /\ manifest.devDep
    /\ manifest.scripts["preinstall"] = <<"pdc scan --quick || true">>
    /\ config = {DefaultConfig("npm")}

\* C18: in a setup run started with --dry-run, package.json and .pdcrc.json
\* stay as they were when the run began and no install command is run.
C18_DryRunChangesNothing ==
    "--dry-run" \in argv
        => /\ manifest = pre.manifest
           /\ config = pre.config
           /\ \A p \in Managers : ~InLog(installCommands(p))

Excluded ==
    UNION {IF "excludePackages" \in DOMAIN c THEN c.excludePackages ELSE {} : c \in config}

\* C20: no package listed in excludePackages of .pdcrc.json is queried for
\* its peer dependencies or appears among the conflicts analyze reports.
C20_ExcludedPackagesSkipped ==
    /\ \A i \in InfoCalls : calls[i].cmd \notin Excluded
    /\ \A i \in 1..Len(rep.conflicts) : rep.conflicts[i].package \notin Excluded

\* Semantic versioning on the versions and ranges of the model: a caret
\* range on x.0.0 accepts the versions of major x.
MajorOf(v) ==
    CASE v \in {"19.0.0", "^19.0.0"} -> 19
      [] v \in {"18.3.1", "^18.3.1", "~18.3.1"} -> 18
      [] OTHER -> 0
AllSatisfied(peers) ==
    \A d \in DOMAIN peers : d \in DOMAIN deps /\ MajorOf(deps[d]) = MajorOf(peers[d])

\* C21: a watch-listed package is among the conflicts analyze reports exactly
\* when some peer constraint of its latest version is not satisfied by the
\* version the project declares for that peer.
C21_ConflictIffUnsatisfied ==
    /\ \A i \in 1..Len(rep.conflicts) : ~AllSatisfied(rep.conflicts[i].peerDeps)
    /\ \A i \in InfoCalls :
         (\E m \in calls[i].result : ~AllSatisfied(m))
            => \E j \in 1..Len(rep.conflicts) : rep.conflicts[j].package = calls[i].cmd

\* C22: a declared watch-list package whose peer lookup did not deliver peer
\* data is never covered by the "no conflicts detected" line of analyze.
C22_FailedLookupNeverAllClear ==
    Printed("No major peer dependency conflicts detected")
        => \A i \in InfoCalls : calls[i].truth # "failed"

\* C23: check without package arguments prints the two usage lines, makes
\* no registry query and ends with exit code 0.
C23_CheckWithoutPackages ==
    (cliCmd = "check" /\ Len(packages) = 0 /\ cliPos >= 0)
        => /\ cliExit = 0
           /\ issued = <<>>
           /\ hung = "none"
           /\ Len(output) = 2
           /\ output[1].text = "Please specify packages to check. Example:"
           /\ output[2].text = "  pdc check react@19 react-dom@19"

C23_Witness ==
    /\ cliCmd = "check"
    /\ packages = <<>>
    /\ cliPos = 0
    /\ cliExit = 0
    /\ Len(output) = 2

\* The strings that stand for "on" in a boolean-like environment variable.
BoolishTrue(v) == v \in {{"true"}, {"1"}}

\* C24: scan runs in quick mode exactly when --quick is given or QUICK_MODE
\* is set to a true-like string, and analyze runs in brief mode exactly
\* when --brief is given or BRIEF_MODE is set to a true-like string, both
\* through pdc and when the script is run directly.
C24_EnvMirrorsFlags ==
    inv.started
        => /\ inv.script = "scan"
                => (inv.quick <=> ("--quick" \in inv.flags
                                     \/ BoolishTrue(inv.env.QUICK_MODE)))
           /\ inv.script = "analyze"
                => (inv.brief <=> ("--brief" \in inv.flags
                                     \/ BoolishTrue(inv.env.BRIEF_MODE)))


\* ---- C25
\* Within one invocation the subprocess calls are sequential: a process of
\* the tool never has two children running, and a child is started only
\* when every child started before it has ended.
ChildStarts == {"precheck:start", "install:start", "postcheck:start"}
ChildEnds == {"precheck:end", "install:close", "install:error",
              "postcheck:end", "postcheck:failed"}
CountIn(seq, set, n) == Cardinality({i \in 1..n : seq[i] \in set})
Affirmative == {"y", "Y", " y\n", "yes", "YES", " Yes "}
EventAt(e) == {i \in 1..Len(inst.events) : inst.events[i] = e}
Before(a, b) == \A j \in EventAt(b) : \E i \in EventAt(a) : i < j
Answered == EventAt("answer") # {}
Unsupported ==
    /\ Len(inst.args) > 0
    /\ inst.args[1] \notin {"--help", "-h"}
    /\ \/ inst.args[1] \notin {"npm", "pnpm", "yarn", "bun"}
       \/ Len(inst.args) < 2
       \/ inst.args[2] \notin {"install", "add", "i"}
C26_InstallOnlyAfterYes ==
    /\ EventAt("install:start") # {} =>
         /\ Before("precheck:end", "install:start")
         /\ Before("answer", "install:start")
         /\ inst.answer \in Affirmative
    /\ (Answered /\ inst.answer \notin Affirmative) =>
         /\ inst.pc = "done"
         /\ inst.exit = 0
         /\ EventAt("install:start") = {}
    /\ (Unsupported /\ inst.pc # "start") =>
         /\ inst.pc = "done"
         /\ inst.exit = 1
         /\ inst.events = <<>>
C26_Witness ==
    /\ EventAt("install:start") # {}
    /\ inst.answer = " Yes "

\* ---- C27
\* The post-install check runs exactly when the install has closed with code
\* 0, and after the close; an install that closes with a non-zero code c ends
\* pdc-install with code c and no post-install check; a failing post-install
\* check still ends with code 0.
C27_PostCheckIffInstalled ==
    /\ (EventAt("postcheck:start") # {}) <=> (inst.closed = {{0}})
    /\ Before("install:close", "postcheck:start")
    /\ \A c \in {1, 2} :
         inst.closed = {{c}} =>
             /\ inst.pc = "done"
             /\ inst.exit = c
             /\ EventAt("postcheck:start") = {}
    /\ EventAt("postcheck:failed") # {} => inst.exit = 0
C27_Witness ==
    /\ EventAt("postcheck:failed") # {}
    /\ inst.closed = {{0}}
    /\ inst.exit = 0

\* ---- C28
\* Once package.json has been backed up, the dry-run section ends, on every
\* way out, with package.json equal to the content that was backed up and
\* with no backup file; and restoring a second time changes nothing.
C28_RestoredOnEveryExit ==
    /\ (dry.hasBackup /\ dry.pc \in {"after", "end", "done"}) =>
         /\ dry.pkg = dry.orig
         /\ dry.backup = {}
    /\ restorePackageJson(restorePackageJson(dry)) = restorePackageJson(dry)
C28_Witness ==
    /\ dry.hasBackup
    /\ dry.upgraded
    /\ dry.sigint
    /\ dry.exit = 1
    /\ dry.pkg = dry.orig

\* ---- C29
\* Setup runs install, merge scripts, create config, smoke test in that
\* order and a failing step stops it: after a failed install the run has
\* ended with code 1 and has written neither the scripts nor .pdcrc.json;
\* "Setup complete!" is printed only when all four steps succeeded.
StepBanners == <<"Installing peer-dependency-checker...",
                 "Setting up package.json scripts...",
                 "Creating configuration file...",
                 "Testing setup...">>
LogAt(t) == {i \in 1..Len(log) : log[i] = t}
InstallFailed ==
    /\ LogAt("Installing peer-dependency-checker...") # {}
    /\ LogAt("Already installed globally") = {}
    /\ LogAt("Installed as devDependency") = {}
    /\ pc # "blocked"
C29_StepsInOrderAndFailFast ==
    /\ \A k \in 1..4 : Cardinality(LogAt(StepBanners[k])) <= 1
    /\ \A k \in 2..4 :
         \A j \in LogAt(StepBanners[k]) :
             \E i \in LogAt(StepBanners[k - 1]) : i < j
    /\ InstallFailed =>
         /\ pc = "idle"
         /\ exitCode = 1
         /\ manifest.scripts = pre.manifest.scripts
         /\ config = pre.config
         /\ LogAt("Setting up package.json scripts...") = {}
    /\ LogAt("Setup complete!") # {} =>
         /\ LogAt("Already installed globally") # {}
              \/ LogAt("Installed as devDependency") # {}
         /\ LogAt("Package.json updated") # {}
         /\ LogAt("Created .pdcrc.json") # {}
              \/ LogAt(".pdcrc.json already exists, skipping") # {}
         /\ LogAt("CLI accessible") # {} \/ LogAt("CLI accessible via npx") # {}
         /\ LogAt("Setup failed:") = {}
C29_Witness ==
    /\ InstallFailed
    /\ exitCode = 1
    /\ pre.manifest.scripts # NoScripts

\* ---- C30
\* Two setup runs interleaving on one project: at every point each script
\* key that was there before both runs has its original value, and once
\* both runs have written their merge all five tool keys are present.
Merged(r) ==
    \/ race.run[r].pc \in {"check", "config", "test"}
    \/ race.run[r].pc = "done" /\ race.run[r].read.exists
BothMerged == \A r \in {1, 2} : Merged(r)
C30_KeysSurviveRace ==
    /\ \A k \in DOMAIN race.orig.scripts :
         /\ k \in DOMAIN race.file.scripts
         /\ race.file.scripts[k] = race.orig.scripts[k]
    /\ BothMerged => ToolKeys \subseteq DOMAIN race.file.scripts
====
